---- MODULE Spec2Model ----
(***************************************************************************)
(* State-machine model of EEGStreamer (src/EEGStreamer.py): the stream     *)
(* loop of start(), the listen step, decode, sleep_and_sync and stop().    *)
(*                                                                         *)
(* Time is fixed-point: every clock value, delay and duration is a whole   *)
(* number of microseconds (Res per second).  The float expression of       *)
(* sleep_and_sync is evaluated with one floor division.                    *)
(*                                                                         *)
(* A finite sample value is a whole number of hundredths of a millionth;   *)
(* the text '%.6f' makes of it keeps whole millionths, and literal_eval    *)
(* reads that text back as a number of millionths.                         *)
(*                                                                         *)
(* The clock never runs backwards.  A sleep takes its delay, or its delay  *)
(* and a stall; a flush returns at once or at its timeout; a poll returns  *)
(* at once with a message and at its timeout otherwise.  Every other       *)
(* statement takes no time, so the two time() calls of start() read the    *)
(* same instant.                                                           *)
(***************************************************************************)
EXTENDS Integers, Sequences, FiniteSets, TLC

VARIABLES
    \* configuration, set by __init__ and the command line, constant afterwards
    sampling_rate, streaming_rate, delay_refresh_intv, flush_interval,
    listen_interval, max_stream_duration, infile,
    \* environment
    now, slow, pending, arrived, interrupted,
    \* stream loop (locals of start) and position of the program
    status, pc, start_time, heart_beat, stream_delay, stream_count, istream,
    \* observable effects
    wire, published, prevTs, lastTs, flushes, polls, msg, line, nRendered, warnings,
    raised, released

config == <<sampling_rate, streaming_rate, delay_refresh_intv, flush_interval,
            listen_interval, max_stream_duration, infile>>
session == <<start_time, heart_beat, stream_delay, stream_count>>
effects == <<published, prevTs, lastTs, flushes, polls, nRendered, warnings,
             released>>
effects_but_warnings == <<published, prevTs, lastTs, flushes, polls, nRendered, released>>
vars == <<config, now, slow, pending, arrived, interrupted, status, pc, session,
          istream, wire, effects, msg, line, raised>>

----------------------------------------------------------------------------
\* Bounds of the model

\* overshoot of a sleep (s) when the process is descheduled
MaxStallSec == 3
\* most timing disturbances (a stalled sleep, a flush that times out) in a run
MaxSlow == 1
\* most result messages that reach the inbound topic while the loop runs
MaxArrivals == 2
\* most result messages waiting on the bus once the loop has returned
MaxPending == 10

----------------------------------------------------------------------------
\* Program constants

\* clock resolution: '%.6f' keeps six decimals of a second
Res == 1000000
\* np.tile(..., [1, 10])
TileReps == 10
\* consumer.consume(num_messages=10)
DrainCount == 10
\* consumer.poll(0.1), in microseconds
PollTimeout == 100000
\* producer.flush(1), in seconds
FlushTimeout == 1
\* last whole kilosecond datetime.fromtimestamp accepts (year 9999)
MaxTimestampKs == 253402300

\* a stalled sleep returns this much late
Stall == MaxStallSec * Res

Max(a, b) == IF a >= b THEN a ELSE b

----------------------------------------------------------------------------
\* Input data: ds = np.tile(np.loadtxt(infile), [1, 10])

\* number of columns of ds
NCols == TileReps * Len(infile)

\* ds[:, i] for the 0-based column index i of the loop
Column(i) == infile[(i % Len(infile)) + 1]

\* A value np.loadtxt reads is a float: a finite one is held here in units of
\* 1/Fine microsecond-sized steps (two decimal digits below the six the wire
\* keeps), and loadtxt also reads the texts nan and inf.
Fine == 100
Finite(n) == [kind |-> "finite", n |-> n]
NaN == [kind |-> "nan", n |-> 0]
Infinity == [kind |-> "inf", n |-> 0]

\* the input files: an empty one and one of a single column of one channel
Files == {<<>>, << <<Finite(749)>> >>}
\* an input file of two columns, which ds repeats in turn
TwoColumns == << <<Finite(749)>>, <<Finite(951)>> >>

----------------------------------------------------------------------------
\* Encoder: the value start() builds for a sample, and its evaluation by decode

Abs(n) == IF n < 0 THEN -n ELSE n

\* the six-decimal text of a number of m millionths: sign, digits before the
\* point, the six digits after it
Decimal(neg, m) == [kind |-> "decimal", neg |-> neg, whole |-> m \div Res, frac |-> m % Res]

\* '%.6f' % float(x) keeping five decimals only
FormatFloatFiveDecimals(x) ==
    IF x.kind = "finite"
    THEN Decimal(x.n < 0, ((Abs(x.n) + 5 * Fine) \div (10 * Fine)) * 10)
    ELSE [kind |-> x.kind, neg |-> FALSE, whole |-> 0, frac |-> 0]

\* '%.6f' % float(x): the nearest six-decimal text of a finite x (a tie, which
\* the binary value of x decides, is rounded away from zero here); 'nan' and
\* 'inf' for the others, without any check
FormatFloat(x) ==
    IF x.kind = "finite"
    THEN Decimal(x.n < 0, (Abs(x.n) + Fine \div 2) \div Fine)
    ELSE [kind |-> x.kind, neg |-> FALSE, whole |-> 0, frac |-> 0]

\* '%.6f' % float(timestamp): the clock counts whole microseconds
FormatTimestamp(t) == Decimal(FALSE, t)

\* value = "{'t':%.6f,'v':[" + ','.join('%.6f' % float(ds[ich, istream])) + "]}"
Encode(t, column) ==
    [t |-> FormatTimestamp(t), v |-> [c \in 1..Len(column) |-> FormatFloat(column[c])]]

\* no value has been built yet
NoWire == [t |-> Decimal(FALSE, 0), v |-> <<>>]

\* the float a six-decimal text evaluates to, in millionths
ParseDecimal(d) == (IF d.neg THEN -1 ELSE 1) * (d.whole * Res + d.frac)

\* ast.literal_eval of a wire text: the names nan and inf are no literals
LiteralEval(text) ==
    [literal |-> \A c \in 1..Len(text.v) : text.v[c].kind = "decimal",
     keys |-> {"t", "v"},
     t |-> ParseDecimal(text.t),
     v |-> [c \in 1..Len(text.v) |-> ParseDecimal(text.v[c])]]

----------------------------------------------------------------------------
\* Rate controller (sleep_and_sync)

InitialDelayTenth == (8 * Res) \div (100 * streaming_rate)

\* stream_delay = 0.8 / self.streaming_rate
InitialDelay == (8 * Res) \div (10 * streaming_rate)

\* self.delay_refresh_intv * self.sampling_rate
RefreshCount == delay_refresh_intv * sampling_rate

DeviationReversed(duration) == duration - delay_refresh_intv * Res

\* deviation = (self.delay_refresh_intv - duration), here in microseconds
Deviation(duration) == delay_refresh_intv * Res - duration

RawDelayUndamped(delay, duration) ==
    delay + (Deviation(duration) \div (delay_refresh_intv * sampling_rate))

\* sampling_delay + deviation / (delay_refresh_intv * 1000) / sampling_rate * 0.5
RawDelay(delay, duration) ==
    delay + (Deviation(duration) \div (delay_refresh_intv * sampling_rate * 2))

AdjustedDelayNoClamp(delay, duration) == RawDelay(delay, duration)

\* ... if sampling_delay < 0: raise ValueError / except: sampling_delay = 0
AdjustedDelay(delay, duration) ==
    IF RawDelay(delay, duration) < 0 THEN 0 ELSE RawDelay(delay, duration)

----------------------------------------------------------------------------
\* Inbound channel: what consumer.poll(0.1) can return

\* msg.key(): the key bytes of a message, absent (None) or not valid UTF-8
KeyBytes(text) == [kind |-> "bytes", text |-> text]
KeyAbsent == [kind |-> "absent", text |-> ""]
KeyInvalid == [kind |-> "invalid", text |-> ""]
OtherKeys == {KeyBytes("other"), KeyAbsent, KeyInvalid}

\* a timestamp of ks kiloseconds and us microseconds
Time(ks, us) == [ks |-> ks, us |-> us]
\* 2020-09-13 12:26:40.5 as seconds, and the same instant sent as milliseconds
GoodTime == Time(1600000, 500000)
MillisTime == Time(1600000000, 0)

Labels == {"pres", "bckg", "Pres", "xyz"}
LabelSeqs == {<<a>> : a \in Labels} \cup {<<"pres", "bckg">>, <<"bckg", "pres">>}

\* msg.value(): text that is no Python literal, or the text of a dict with some
\* of the keys 't' and 'v'
Garbage == [literal |-> FALSE, keys |-> {}, t |-> GoodTime, v |-> <<>>]
Dict(keys, t, v) == [literal |-> TRUE, keys |-> keys, t |-> t, v |-> v]
Payloads ==
    {Garbage, Dict({"v"}, GoodTime, <<"pres">>), Dict({"t"}, GoodTime, <<>>),
     Dict({"t", "v"}, GoodTime, <<>>)}
    \cup {Dict({"t", "v"}, t, v) : t \in {GoodTime, MillisTime}, v \in LabelSeqs}

\* the value of a message whose key is not "key" is never read: two stand for all
Inbound ==
    {<<KeyBytes("key"), value>> : value \in Payloads}
    \cup (OtherKeys \X {Garbage, Dict({"t", "v"}, GoodTime, <<"pres">>)})

NoKey == [kind |-> "none", text |-> ""]
NoMsg == [kind |-> "none", code |-> "", key |-> NoKey, value |-> Garbage]
ErrorMsg(code) == [kind |-> "error", code |-> code, key |-> NoKey, value |-> Garbage]
Message(key, value) == [kind |-> "message", code |-> "", key |-> key, value |-> value]
ErrorCodes == {"_PARTITION_EOF", "_TRANSPORT"}

----------------------------------------------------------------------------
\* decode and the body of listen

\* msg.key().decode('utf-8') raises on None and on bytes that are no UTF-8
KeyDecodes(key) == key.kind = "bytes"

\* ast.literal_eval(value.decode("UTF-8")); mydata['t'], mydata['v']
DecodeRaises(value) ==
    \/ ~value.literal
    \/ "t" \notin value.keys
    \/ "v" \notin value.keys

decode(value) == <<value.t, value.v>>

\* datetime.fromtimestamp(int(t)) raises for a year after 9999
TimeFormats(t) == t.ks <= MaxTimestampKs

\* .time().strftime('%I:%M:%S %p'): the second of the day of int(t)
FormatTime(t) == ((t.ks % 432) * 1000 + (t.us \div Res)) % 86400

Seizure == [tag |-> "Seizure", label |-> ""]
Background == [tag |-> "Background", label |-> ""]
Unknown(label) == [tag |-> "Unknown", label |-> label]

\* if v[0] == 'pres': ... elif v[0] == 'bckg': ... else: ...
Classify(v) ==
    IF v[1] = "pres" THEN Seizure
    ELSE IF v[1] = "bckg" THEN Background
    ELSE Unknown(v[1])

NoLine == [time |-> -1, outcome |-> [tag |-> "none", label |-> ""]]

\* What listen does with a message that is no error: the exception it lets
\* escape ("none" when it returns), and the line it prints (NoLine when none).
Reply(exception, printed) == [raise |-> exception, line |-> printed]
HandleMessage(m) ==
    IF ~KeyDecodes(m.key) THEN
        Reply(IF m.key.kind = "absent" THEN "AttributeError" ELSE "UnicodeDecodeError", NoLine)
    ELSE IF m.key.text # "key" THEN Reply("none", NoLine)
    ELSE IF DecodeRaises(m.value) THEN
        Reply(IF ~m.value.literal THEN "SyntaxError" ELSE "KeyError", NoLine)
    ELSE IF ~TimeFormats(decode(m.value)[1]) THEN Reply("ValueError", NoLine)
    ELSE IF Len(decode(m.value)[2]) = 0 THEN Reply("IndexError", NoLine)
    ELSE Reply("none", [time |-> FormatTime(decode(m.value)[1]),
                        outcome |-> Classify(decode(m.value)[2])])

----------------------------------------------------------------------------
\* The state after __init__

Rates == {1, 2, 4}
Intervals == {1, 2}
\* max_stream_duration (s) of the small configurations
Caps == {0, 2, 1000}

InitProgram ==
    /\ now = 0
    /\ slow = 0
    /\ pending = 0
    /\ arrived = 0
    /\ interrupted = FALSE
    /\ status = "Idle"
    /\ pc = "start"
    /\ start_time = 0
    /\ heart_beat = 0
    /\ stream_delay = 0
    /\ stream_count = 0
    /\ istream = 0
    /\ wire = NoWire
    /\ published = <<>>
    /\ prevTs = 0
    /\ lastTs = 0
    /\ flushes = 0
    /\ polls = 0
    /\ msg = NoMsg
    /\ line = NoLine
    /\ nRendered = 0
    /\ warnings = 0
    /\ raised = "none"
    /\ released = FALSE

Init ==
    /\ \/ /\ sampling_rate \in Rates
          /\ flush_interval \in Intervals
          /\ max_stream_duration \in Caps
          /\ infile \in Files
       \/ /\ sampling_rate = 4
          /\ flush_interval = 1
          /\ max_stream_duration = 2
          /\ infile = TwoColumns
    /\ streaming_rate = sampling_rate
    /\ delay_refresh_intv = 1
    /\ listen_interval = 1
    /\ InitProgram

----------------------------------------------------------------------------
\* start(): the stream loop

\* start_time = time(); heart_beat = time(); stream_delay = 0.8 / rate;
\* stream_count = 1; for istream in range(0, ds.shape[1])
Start ==
    /\ pc = "start"
    /\ start_time' = now
    /\ heart_beat' = now
    /\ stream_delay' = InitialDelay
    /\ stream_count' = 1
    /\ istream' = 0
    /\ IF NCols > 0
       THEN status' = "Streaming" /\ pc' = "produce"
       ELSE status' = "Stopped" /\ pc' = "stop"
    /\ UNCHANGED <<config, wire, now, slow, pending, arrived, interrupted, effects, msg, line,
                   raised>>

\* the sample message of column i, published with key montage
SampleMessageOffByOne(i) == [col |-> i + 1, value |-> Encode(now, Column(i + 1))]

SampleMessage(i) == [col |-> i, value |-> Encode(now, Column(i))]

\* the entry the log of publishes keeps of a message: its column and the texts
\* of its values (its capture timestamp is lastTs while it is the latest)
Sent(m) == [col |-> m.col, v |-> m.value.v]

\* timestamp = time(); self.producer.produce(topic, key=montage, value=value)
Produce ==
    /\ pc = "produce"
    /\ wire' = SampleMessage(istream).value
    /\ published' = Append(published, Sent(SampleMessage(istream)))
    /\ prevTs' = lastTs
    /\ lastTs' = now
    /\ pc' = "flush"
    /\ UNCHANGED <<config, now, slow, pending, arrived, interrupted, status, session, istream,
                   flushes, polls, nRendered, warnings, released, msg, line, raised>>

\* int(self.flush_interval * self.streaming_rate), max(intv, 1)
FlushEvery == Max(flush_interval * streaming_rate, 1)
ListenEvery == Max(listen_interval * streaming_rate, 1)
FlushDueAfterIncrement == (stream_count + 1) % FlushEvery = 0

\* if stream_count % max(intv, 1) == 0, before sleep_and_sync increments it
FlushDue == stream_count % FlushEvery = 0

ListenDueAlways == TRUE

ListenDue == stream_count % ListenEvery = 0

\* if stream_count % max(intv, 1) == 0: self.producer.flush(1)
Flush ==
    /\ pc = "flush"
    /\ IF FlushDue
       THEN /\ flushes' = flushes + 1
            /\ \/ UNCHANGED <<now, slow>>
               \/ /\ slow < MaxSlow
                  /\ slow' = slow + 1
                  /\ now' = now + FlushTimeout * Res
       ELSE UNCHANGED <<flushes, now, slow>>
    /\ pc' = "listen"
    /\ UNCHANGED <<config, wire, pending, arrived, interrupted, status, session, istream,
                   published, prevTs, lastTs, polls, nRendered, warnings, released, msg,
                   line, raised>>

\* a result message reaches the inbound topic
Arrive ==
    /\ \/ pc = "listen" /\ ListenDue /\ arrived < MaxArrivals /\ arrived' = arrived + 1
       \/ pc = "stop" /\ pending < MaxPending /\ UNCHANGED arrived
    /\ pending' = pending + 1
    /\ UNCHANGED <<config, wire, now, slow, interrupted, status, pc, session, istream,
                   effects, msg, line, raised>>

\* the listen step is not due on this tick
ListenSkip ==
    /\ pc = "listen"
    /\ ~ListenDue
    /\ pc' = "sync"
    /\ UNCHANGED <<config, wire, now, slow, pending, arrived, interrupted, status, session, istream,
                   effects, msg, line, raised>>

\* msg = self.consumer.poll(0.1); if msg is None: pass
ListenNone ==
    /\ pc = "listen"
    /\ ListenDue
    /\ pending = 0
    /\ polls' = polls + 1
    /\ msg' = NoMsg
    /\ now' = now + PollTimeout
    /\ pc' = "sync"
    /\ UNCHANGED <<config, wire, slow, pending, arrived, interrupted, status, session, istream,
                   published, prevTs, lastTs, flushes, nRendered, warnings, released,
                   line, raised>>

ListenErrorAborts ==
    /\ pc = "listen"
    /\ ListenDue
    /\ polls' = polls + 1
    /\ \E code \in ErrorCodes : msg' = ErrorMsg(code)
    /\ now' = now + PollTimeout
    /\ status' = "Aborted"
    /\ pc' = "crashed"
    /\ UNCHANGED <<config, wire, slow, pending, arrived, interrupted, session, istream,
                   published, prevTs, lastTs, flushes, nRendered, warnings, released,
                   line, raised>>

\* elif msg.error().code() == KafkaError._PARTITION_EOF: ... else: ...
\* (both branches only print, and only in verbose mode)
ListenError ==
    /\ pc = "listen"
    /\ ListenDue
    /\ polls' = polls + 1
    /\ \E code \in ErrorCodes : msg' = ErrorMsg(code)
    /\ now' = now + PollTimeout
    /\ pc' = "sync"
    /\ UNCHANGED <<config, wire, slow, pending, arrived, interrupted, status, session, istream,
                   published, prevTs, lastTs, flushes, nRendered, warnings, released,
                   line, raised>>

\* elif not msg.error(): key check, decode, classify, print
ListenMessage ==
    /\ pc = "listen"
    /\ ListenDue
    /\ pending > 0
    /\ pending' = pending - 1
    /\ polls' = polls + 1
    /\ \E kv \in Inbound :
         LET m == Message(kv[1], kv[2])
             reply == HandleMessage(m)
         IN /\ msg' = m
            /\ raised' = reply.raise
            /\ line' = reply.line
            /\ nRendered' = IF reply.line = NoLine THEN nRendered ELSE nRendered + 1
            /\ IF reply.raise = "none"
               THEN pc' = "sync" /\ status' = status
               ELSE pc' = "crashed" /\ status' = "Aborted"
    /\ UNCHANGED <<config, wire, now, slow, arrived, interrupted, session, istream,
                   published, prevTs, lastTs, flushes, warnings, released>>

\* the correction of sleep_and_sync, at the clock reading new_heartbeat:
\* the new delay, its warning, sampling_count = 0, heart_beat = new_heartbeat
Adjust(new_heartbeat) ==
    /\ stream_delay' = AdjustedDelay(stream_delay, new_heartbeat - heart_beat)
    /\ warnings' = IF RawDelay(stream_delay, new_heartbeat - heart_beat) < 0
                   THEN warnings + 1 ELSE warnings
    /\ stream_count' = 0
    /\ heart_beat' = new_heartbeat

\* sleep(sampling_delay); sampling_count += 1; the correction when the count
\* equals delay_refresh_intv * sampling_rate
SleepAndSync ==
    /\ pc = "sync"
    /\ \E stall \in {0} \cup (IF slow < MaxSlow THEN {Stall} ELSE {}) :
         LET new_heartbeat == now + stream_delay + stall
             count == stream_count + 1
         IN /\ now' = new_heartbeat
            /\ slow' = IF stall > 0 THEN slow + 1 ELSE slow
            /\ IF count = RefreshCount
               THEN Adjust(new_heartbeat)
               ELSE /\ stream_count' = count
                    /\ UNCHANGED <<stream_delay, heart_beat, warnings>>
    /\ msg' = NoMsg
    /\ line' = NoLine
    /\ pc' = "check"
    /\ UNCHANGED <<config, wire, pending, arrived, interrupted, status, start_time,
                   istream, published, prevTs, lastTs, flushes, polls, nRendered,
                   released, raised>>

CapExceededSinceHeartbeat == now - heart_beat > max_stream_duration * Res

\* time() - start_time > self.max_stream_duration
CapExceeded == now - start_time > max_stream_duration * Res

\* if ...: break; otherwise the next istream of the range, or its end
CapCheck ==
    /\ pc = "check"
    /\ IF CapExceeded \/ istream + 1 >= NCols
       THEN status' = "Stopped" /\ pc' = "stop" /\ UNCHANGED istream
       ELSE istream' = istream + 1 /\ pc' = "produce" /\ UNCHANGED status
    /\ UNCHANGED <<config, wire, now, slow, pending, arrived, interrupted, session, effects, msg,
                   line, raised>>

\* stop(): self.consumer.consume(num_messages=10) returns once it holds 10
\* messages (its timeout is the default, none); then self.consumer.close()
Stop ==
    /\ pc = "stop"
    /\ pending >= DrainCount
    /\ pending' = pending - DrainCount
    /\ released' = TRUE
    /\ pc' = "done"
    /\ UNCHANGED <<config, wire, now, slow, arrived, interrupted, status, session, istream,
                   published, prevTs, lastTs, flushes, polls, nRendered, warnings, msg,
                   line, raised>>

Next ==
    \/ Start
    \/ Produce
    \/ Flush
    \/ Arrive
    \/ ListenSkip
    \/ ListenNone
    \/ ListenError
    \/ ListenMessage
    \/ SleepAndSync
    \/ CapCheck
    \/ Stop

Spec == Init /\ [][Next]_vars

\* The steps of the program itself: it is one thread that runs whenever it is
\* not blocked in a call, so each of its steps is taken once it stays enabled.
\* The arrival of a message is the environment's and is owed to nobody.
Program ==
    \/ Start
    \/ Produce
    \/ Flush
    \/ ListenSkip
    \/ ListenNone
    \/ ListenError
    \/ ListenMessage
    \/ SleepAndSync
    \/ CapCheck
    \/ Stop

FairSpec == Init /\ [][Next]_vars /\ WF_vars(Program)

----------------------------------------------------------------------------
\* An external stop request.  start() polls no flag and installs no handler,
\* and __main__ calls stop() only after start() has returned: the one request
\* the process can receive is the interrupt signal, which Python raises as
\* KeyboardInterrupt inside the loop.

Interrupt ==
    /\ status = "Streaming"
    /\ interrupted' = TRUE
    /\ raised' = "KeyboardInterrupt"
    /\ status' = "Aborted"
    /\ pc' = "crashed"
    /\ UNCHANGED <<config, wire, now, slow, pending, arrived, session, istream,
                   effects, msg, line>>

NextStop ==
    \/ Next
    \/ Interrupt

SpecStop == Init /\ [][NextStop]_vars

----------------------------------------------------------------------------
\* The configuration the program ships with, under a duration cap of 2 s

\* columns of the input file of this scenario: ds has 10 times as many
CapFileCols == 60

InitCap ==
    /\ sampling_rate = 256
    /\ streaming_rate = 256
    /\ delay_refresh_intv = 1
    /\ flush_interval = 1
    /\ listen_interval = 1
    /\ max_stream_duration = 2
    /\ infile = [j \in 1..CapFileCols |-> <<Finite(j)>>]
    /\ InitProgram

SpecCap == InitCap /\ [][Next]_vars

----------------------------------------------------------------------------
\* The encoder over a range of sample values: files of one column of one or
\* two channels, streamed by the same loop at 4 Hz under a cap of 2 s.
WireValues ==
    {Finite(0), Finite(49), Finite(50), Finite(-151), Finite(123456749), Finite(-99999950),
     NaN, Infinity}
WireColumns == {<<a>> : a \in WireValues} \cup {<<a, b>> : a, b \in WireValues}

InitWire ==
    /\ sampling_rate = 4
    /\ streaming_rate = 4
    /\ delay_refresh_intv = 1
    /\ flush_interval = 1
    /\ listen_interval = 1
    /\ max_stream_duration = 2
    /\ infile \in {<<column>> : column \in WireColumns}
    /\ InitProgram

SpecWire == InitWire /\ [][Next]_vars

----------------------------------------------------------------------------
\* The rate controller alone, at the shipped rate of 256 Hz, when every
\* correction cycle is measured one percent longer than delay_refresh_intv.

MaxCycles == 200

SlowDuration == (101 * delay_refresh_intv * Res) \div 100

InitDrift ==
    /\ sampling_rate = 256
    /\ streaming_rate = 256
    /\ delay_refresh_intv = 1
    /\ flush_interval = 1
    /\ listen_interval = 1
    /\ max_stream_duration = 1000
    /\ infile = [j \in 1..CapFileCols |-> <<Finite(j)>>]
    /\ now = 0
    /\ slow = 0
    /\ pending = 0
    /\ arrived = 0
    /\ interrupted = FALSE
    /\ status = "Streaming"
    /\ pc = "sync"
    /\ start_time = 0
    /\ heart_beat = 0
    /\ stream_delay = InitialDelay
    /\ stream_count = RefreshCount - 1
    /\ istream = 0
    /\ wire = NoWire
    /\ published = <<>>
    /\ prevTs = 0
    /\ lastTs = 0
    /\ flushes = 0
    /\ polls = 0
    /\ msg = NoMsg
    /\ line = NoLine
    /\ nRendered = 0
    /\ warnings = 0
    /\ raised = "none"
    /\ released = FALSE

\* The ticks of one correction cycle, whose sleeps and other statements take
\* SlowDuration together, up to the call of sleep_and_sync that closes the
\* cycle with its correction.
SlowCycle ==
    /\ pc = "sync"
    /\ now < MaxCycles * SlowDuration
    /\ now' = heart_beat + SlowDuration
    /\ Adjust(heart_beat + SlowDuration)
    /\ UNCHANGED <<config, slow, pending, arrived, interrupted, status, pc, start_time,
                   istream, wire, effects_but_warnings, msg, line, raised>>

SpecDrift == InitDrift /\ [][SlowCycle]_vars

----------------------------------------------------------------------------
\* Properties

\* the listen step has just handled a message with the sentinel key
HandledSentinel == pc = "listen" /\ msg'.kind = "message" /\ msg'.key = KeyBytes("key")

\* C1: the delay held by the stream loop is never negative; a correction
\* whose new delay comes out negative returns exactly 0, prints the warning,
\* and the loop goes on to the duration check of a tick still Streaming.
C1_DelayNeverNegative ==
    [][/\ stream_delay' >= 0
       /\ (/\ pc = "sync"
           /\ stream_count + 1 = delay_refresh_intv * sampling_rate
           /\ stream_delay + ((delay_refresh_intv * Res - (now' - heart_beat))
                  \div (delay_refresh_intv * sampling_rate * 2)) < 0)
          => (/\ stream_delay' = 0
              /\ warnings' = warnings + 1
              /\ status' = "Streaming"
              /\ pc' = "check")]_vars

\* a correction was clamped to 0 and a later sample was published with it
C1_Witness ==
    /\ warnings > 0
    /\ stream_delay = 0
    /\ status = "Streaming"
    /\ pc = "flush"

\* C2: the k-th publish carries column k of ds (0-based k - 1), one sample is
\* published per tick, and the capture timestamps of successive publishes do
\* not decrease.
C2_PublishedInSourceOrder ==
    /\ \A k \in 1..Len(published) :
         /\ published[k].col = k - 1
         /\ published[k].v =
                [c \in 1..Len(infile[((k - 1) % Len(infile)) + 1]) |->
                    FormatFloat(infile[((k - 1) % Len(infile)) + 1][c])]
    /\ status = "Streaming" =>
         Len(published) = istream + (IF pc = "produce" THEN 0 ELSE 1)
    /\ prevTs <= lastTs

\* a file of two columns was published beyond its first repetition, the last
\* sample later than the one before
C2_Witness ==
    /\ Len(infile) = 2
    /\ Len(published) > 4
    /\ prevTs < lastTs

\* C3: a message with the sentinel key whose decoding or classification
\* fails (no literal, no 't', no 'v', empty 'v') is skipped: nothing is
\* rendered and the loop goes on Streaming.
C3_DecodeErrorSkipped ==
    [][(/\ HandledSentinel
        /\ \/ ~msg'.value.literal
           \/ msg'.value.keys # {"t", "v"}
           \/ msg'.value.v = <<>>)
       => (/\ nRendered' = nRendered
           /\ status' = "Streaming"
           /\ pc' = "sync")]_vars

\* C4: when the check at the end of a tick finds now - start_time over the
\* cap the loop becomes Stopped, and once Stopped nothing is published,
\* flushed or polled any more and the session state stays as it is.
C4_CapStopsLoop ==
    [][/\ (pc = "check" /\ now - start_time > max_stream_duration * Res)
          => status' = "Stopped"
       /\ status = "Stopped"
          => (/\ status' = "Stopped"
              /\ UNCHANGED <<published, flushes, polls, nRendered, session>>)]_vars

\* the cap stopped the loop before the sequence ended, and stop() has run
C4_Witness ==
    /\ status = "Stopped"
    /\ released
    /\ Len(published) < TileReps * Len(infile)
    /\ now - start_time > max_stream_duration * Res

\* C5 as stated: with a cap of 2 s at 256 Hz at most 513 samples are published.
C5_AtMost513Ticks == Len(published) <= 513

\* C5 as amended: with a cap of 2 s at 256 Hz at most 593 samples are
\* published, and the loop is Stopped by the cap before the sequence ends.
C5_AtMost593Ticks ==
    /\ Len(published) <= 593
    /\ pc = "stop" => Len(published) < TileReps * Len(infile)

\* the loop stopped after 593 ticks that cost their pause and nothing else
C5_Witness ==
    /\ Len(published) = 593
    /\ status = "Stopped"
    /\ slow = 0
    /\ now = lastTs + stream_delay

\* C6: an external stop request never aborts the loop: after it the loop is
\* Streaming until the check of the current tick and Stopped, to be drained
\* by stop(), from then on.
C6_StopIsCooperative == interrupted => status \in {"Streaming", "Stopped"}

\* C7: once the loop has stopped, stop() completes: the connections are
\* released, whatever number of messages is pending.
C7_DrainCompletes == (status = "Stopped") ~> released

\* C8: a message whose key is not the sentinel is ignored: nothing is
\* rendered, no error is raised, and the session state and the status of
\* the loop stay as they are.
C8_OtherKeyIgnored ==
    [][(pc = "listen" /\ msg'.kind = "message" /\ msg'.key # KeyBytes("key"))
       => (/\ nRendered' = nRendered
           /\ line' = NoLine
           /\ raised' = "none"
           /\ status' = "Streaming"
           /\ UNCHANGED session)]_vars

\* C9: every decoded result with a non-empty value sequence gets the outcome
\* of its first element, whatever the other elements and the timestamp are.
C9_OutcomeOfFirstElement ==
    [][(/\ HandledSentinel
        /\ msg'.value.literal
        /\ msg'.value.keys = {"t", "v"}
        /\ msg'.value.v # <<>>)
       => (/\ nRendered' = nRendered + 1
           /\ line'.outcome =
                IF msg'.value.v[1] = "pres" THEN [tag |-> "Seizure", label |-> ""]
                ELSE IF msg'.value.v[1] = "bckg" THEN [tag |-> "Background", label |-> ""]
                ELSE [tag |-> "Unknown", label |-> msg'.value.v[1]])]_vars

\* C10: a poll that returns an error result renders nothing, leaves the
\* session state alone, is not repeated, and the loop goes on Streaming to
\* the pause of the same tick.
C10_PollErrorIgnored ==
    [][(pc = "listen" /\ msg'.kind = "error")
       => (/\ nRendered' = nRendered
           /\ line' = NoLine
           /\ raised' = "none"
           /\ polls' = polls + 1
           /\ status' = "Streaming"
           /\ pc' = "sync"
           /\ UNCHANGED <<session, istream, published>>)]_vars

\* a poll has just returned a transport error and the loop is Streaming
C10_Witness ==
    /\ msg.kind = "error"
    /\ msg.code = "_TRANSPORT"
    /\ pc = "sync"
    /\ status = "Streaming"
    /\ Len(published) > 1

\* the column of ds the latest publish has encoded
LatestColumn == infile[((Len(published) - 1) % Len(infile)) + 1]

\* C11: whenever the latest sample has finite values only, decoding the value
\* text built for it succeeds and yields the capture timestamp to within one
\* millionth and a sequence of the same length whose every element is within
\* one millionth of the sample, in the same order.
C11_RoundTripWithinTolerance ==
    (Len(published) > 0 /\ \A c \in 1..Len(LatestColumn) : LatestColumn[c].kind = "finite") =>
        /\ ~DecodeRaises(LiteralEval(wire))
        /\ Abs(decode(LiteralEval(wire))[1] - lastTs) <= 1
        /\ Len(decode(LiteralEval(wire))[2]) = Len(LatestColumn)
        /\ \A c \in 1..Len(LatestColumn) :
               Abs(decode(LiteralEval(wire))[2][c] * Fine - LatestColumn[c].n) <= Fine

\* a sample of two finite channels was encoded after the first tick, one of
\* its values changed by the rounding and one negative
C11_Witness ==
    /\ Len(published) > 1
    /\ lastTs > 0
    /\ Len(LatestColumn) = 2
    /\ \A c \in 1..2 : LatestColumn[c].kind = "finite"
    /\ \E c \in 1..2 : decode(LiteralEval(wire))[2][c] * Fine # LatestColumn[c].n
    /\ \E c \in 1..2 : decode(LiteralEval(wire))[2][c] < 0

\* C12: no published value text contains a value that is not finite.
C12_NonFiniteNeverPublished ==
    \A k \in 1..Len(published) :
        \A c \in 1..Len(published[k].v) : published[k].v[c].kind = "decimal"

\* C13 as stated: with every correction cycle measured as 1.01 s at 256 Hz,
\* the delay is stable from the fifth correction on: any later correction
\* leaves it as it was.
C13_StableWithinFive ==
    [][(pc = "sync" /\ now >= 5 * SlowDuration) => stream_delay' = stream_delay]_vars

\* C13 as the code behaves: each such correction lowers the delay by the
\* same 0.01 / 512 s (20 in whole microseconds), never raising it, until it
\* is 0, where it stays; after each of the first six corrections it is still
\* positive and has changed.
C13_DelayFallsByConstantStep ==
    [][pc = "sync" =>
        /\ stream_delay' = (IF stream_delay >= 20 THEN stream_delay - 20 ELSE 0)
        /\ now' <= 6 * SlowDuration => (stream_delay' > 0 /\ stream_delay' < stream_delay)]_vars

\* six corrections have been made and the delay is still falling
C13_Witness ==
    /\ now = 6 * SlowDuration
    /\ heart_beat = now
    /\ stream_delay > 0
    /\ stream_delay = InitialDelay - 6 * 20

\* C14: entering Streaming sets the delay to 0.8 / rate, the tick count to 0
\* and both the heart beat and the start time to the current clock, so every
\* correction, the first one included, closes a tick whose number in the run
\* is a multiple of delay_refresh_intv * sampling_rate.
C14_SessionInitialised ==
    [][/\ (pc = "start" /\ status' = "Streaming") =>
            /\ stream_delay' = (8 * Res) \div (10 * streaming_rate)
            /\ stream_count' = 0
            /\ heart_beat' = now'
            /\ start_time' = now'
       /\ (pc = "sync" /\ heart_beat' # heart_beat) =>
            Len(published) % (delay_refresh_intv * sampling_rate) = 0]_vars

\* C15: whenever int(flush_interval * streaming_rate) is at least 1, the
\* k-th tick of the run flushes exactly when k is a multiple of it.
C15_FlushOnEveryFthTick ==
    [][(pc = "flush" /\ flush_interval * streaming_rate >= 1) =>
         /\ flushes' \in {flushes, flushes + 1}
         /\ flushes' = flushes + 1 <=>
                Len(published) % (flush_interval * streaming_rate) = 0]_vars

\* C16: a step polls at most once; it polls only in the listen step of a
\* tick whose count is a multiple of int(listen_interval * streaming_rate),
\* and that listen step polls exactly once; a poll takes at most one message
\* off the bus and renders at most one outcome, nothing else in the loop
\* takes messages off the bus or renders, and so the outcomes rendered never
\* outnumber the polls.
C16_OnePollPerListenStep ==
    [][/\ polls' \in {polls, polls + 1}
       /\ polls' = polls + 1 =>
            /\ pc = "listen"
            /\ stream_count % Max(listen_interval * streaming_rate, 1) = 0
            /\ pending' >= pending - 1
            /\ nRendered' <= nRendered + 1
       /\ (pc = "listen" /\ pc' # "listen") =>
            (polls' = polls + 1 <=>
                stream_count % Max(listen_interval * streaming_rate, 1) = 0)
       /\ polls' = polls => (nRendered' = nRendered /\ (pending' >= pending \/ pc = "stop"))
       /\ nRendered' <= polls']_vars

\* two messages were waiting when a listen step polled: one was handled and
\* rendered, the other is still on the bus
C16_Witness ==
    /\ pc = "sync"
    /\ msg.kind = "message"
    /\ nRendered = 1
    /\ polls >= 1
    /\ pending = 1
    /\ arrived = 2

\* C17: the tick whose incremented count equals delay_refresh_intv *
\* sampling_rate sets the delay to the larger of 0 and delay + (interval -
\* duration) / interval / rate * 0.5, the duration being the clock after the
\* sleep minus the heart beat, resets the count to 0 and sets the heart beat
\* to that clock; every other tick leaves delay and heart beat alone and
\* adds 1 to the count.
C17_CorrectionFormula ==
    [][pc = "sync" =>
        IF stream_count + 1 = delay_refresh_intv * sampling_rate
        THEN /\ stream_delay' =
                  Max(0, stream_delay + ((delay_refresh_intv * Res - (now' - heart_beat))
                                          \div (delay_refresh_intv * sampling_rate * 2)))
             /\ stream_count' = 0
             /\ heart_beat' = now'
        ELSE /\ stream_delay' = stream_delay
             /\ heart_beat' = heart_beat
             /\ stream_count' = stream_count + 1]_vars

\* a correction made more than one interval into the run has lengthened the
\* delay beyond its initial value, and none has clamped it
C17_Witness ==
    /\ pc = "check"
    /\ stream_count = 0
    /\ heart_beat = now
    /\ lastTs > start_time + delay_refresh_intv * Res
    /\ stream_delay > InitialDelay
    /\ warnings = 0

\* C18: a tick publishes, then decides on the flush, then on the listen step,
\* then sleeps and adjusts, then checks the cap; the count is the same at the
\* publish, at both decisions and until the sleep, which alone changes it,
\* and a flush or a poll is made only when that count is a multiple of its
\* period; a run over a file that is not empty has published before it is
\* Stopped, whatever the cap.
C18_TickOrder ==
    [][/\ pc = "produce" =>
            (pc' = "flush" /\ Len(published') = Len(published) + 1 /\ UNCHANGED stream_count)
       /\ pc = "flush" =>
            /\ pc' = "listen"
            /\ UNCHANGED <<stream_count, published>>
            /\ flushes' = flushes + 1 <=>
                  stream_count % Max(flush_interval * streaming_rate, 1) = 0
       /\ pc = "listen" =>
            /\ pc' \in {"listen", "sync", "crashed"}
            /\ UNCHANGED <<stream_count, published, flushes>>
            /\ polls' # polls => stream_count % Max(listen_interval * streaming_rate, 1) = 0
       /\ pc = "sync" =>
            /\ pc' = "check"
            /\ stream_count' \in {stream_count + 1, 0}
            /\ UNCHANGED <<published, flushes, polls>>
       /\ pc = "check" =>
            /\ pc' \in {"produce", "stop"}
            /\ UNCHANGED <<stream_count, published, flushes, polls>>
       /\ (status' = "Stopped" /\ Len(infile) > 0) => Len(published') >= 1]_vars

\* under a cap of 0 s the loop is Stopped after one tick that published,
\* flushed and polled
C18_Witness ==
    /\ max_stream_duration = 0
    /\ Len(infile) > 0
    /\ status = "Stopped"
    /\ Len(published) = 1
    /\ flushes = 1
    /\ polls = 1

\* C19: the loop never reads a column beyond the last one of ds, it makes at
\* most as many ticks as ds has columns, and once it has left the loop it is
\* Stopped.
C19_LoopEndsStopped ==
    /\ pc \in {"produce", "flush", "listen", "sync", "check"} => istream < TileReps * Len(infile)
    /\ Len(published) <= TileReps * Len(infile)
    /\ pc \notin {"start", "produce", "flush", "listen", "sync", "check"} => status = "Stopped"

\* C20: whenever delay_refresh_intv * sampling_rate is a positive integer N,
\* the count at the start of a tick is one of 0..N-1.
C20_CountBelowPeriod ==
    (pc = "produce" /\ delay_refresh_intv * sampling_rate >= 1) =>
        (stream_count >= 0 /\ stream_count < delay_refresh_intv * sampling_rate)

====
